---- MODULE Spec2Model ----
(***************************************************************************)
(* Flakiness tracker: report ingestion (routes/reports.ts), the flakiness  *)
(* analyzer and the flaky_tests reconciler (services/flakiness.ts) over    *)
(* the tables of db/schema.ts.                                             *)
(*                                                                         *)
(* Time is counted in days.  A flake rate is kept as the pair of integers  *)
(* (failCount + flakyCount, totalRuns); the stored decimal(5,4) column is  *)
(* the integer number of ten-thousandths that toFixed(4) prints.           *)
(***************************************************************************)
EXTENDS Integers, Sequences, FiniteSets, TLC

\* ---------------------------------------------------------------- bounds
\* Report submissions in a behaviour whose reconciliations never overlap.
MaxRequests == 3
\* Report submissions in a behaviour whose reconciliations may overlap.
MaxOverlapping == 2
\* Times a maintainer marks a test 'ignored' in a behaviour.
MaxIgnores == 1
\* Last day of the clock.
MaxNow == 16
\* Rows per insert statement; stands for BATCH_SIZE (1000) of reports.ts,
\* scaled down so that a report of four outcomes needs several batches.
BATCH_SIZE == 2

\* Attempts of one spec of a report handed to the parser.
MaxAttempts == 3
\* Nesting depth of the suites of a report handed to the parser.
MaxDepth == 3

\* Outcomes of one status that a test has in the window handed to the
\* analyzer (the named cases apart).
MaxCount == 2

\* Days the clock may advance in one step: a row is inside the 14-day window
\* after one step and outside it after two.
TickDays == {8}

Projects == {"p1"}
TestNames == {"A", "B"}

\* ------------------------------------------------------- program constants
\* DEFAULT_CONFIG of services/flakiness.ts; flakeThreshold 0.05 = 5 / 100.
DefaultWindowDays == 14
DefaultThresholdNum == 5
DefaultThresholdDen == 100
DefaultMinRuns == 3

DEFAULT_CONFIG ==
  [windowDays |-> DefaultWindowDays,
   thresholdNum |-> DefaultThresholdNum,
   thresholdDen |-> DefaultThresholdDen,
   minRuns |-> DefaultMinRuns]

\* ------------------------------------------------------------------ state
VARIABLES
  now,          \* the clock (new Date(), now())
  testRuns,     \* committed rows of test_runs
  testResults,  \* committed rows of test_results
  flakyTests,   \* rows of flaky_tests
  req,          \* the report submission being handled by reports.post
  nreq,         \* submissions accepted so far; a submission's number is its run id
  response,     \* per submission: the status answered (0: none yet) and summary.total
  runs,         \* per submission: the updateFlakyTests call it started
  logged,       \* submissions whose reconciliation failure logger.error recorded
  nignored,     \* times a maintainer has marked a test 'ignored'
  rawReport,    \* the request body handed to parsePlaywrightReport
  parsed,       \* what parsePlaywrightReport(rawReport) returned or threw
  config,       \* the configuration handed to analyzeFlakiness
  analyzed      \* what analyzeFlakiness(projectId, config) returned

\* The variables of the calls of parsePlaywrightReport and analyzeFlakiness
\* taken on their own.
pureVars == <<rawReport, parsed, config, analyzed>>

vars == <<now, testRuns, testResults, flakyTests, req, nreq, response, runs, logged, nignored,
          pureVars>>

ReqIds == 1..MaxRequests

\* ---------------------------------------------------------------- inputs
\* A parsed report: the sequence parsed.results, here all of one test.
Rep(n, sts) == [i \in 1..Len(sts) |-> [testName |-> n, status |-> sts[i]]]

\* The reports submitted: none of the tests; A steady; A flaky at 2 / 3, in
\* four outcomes; B flaky at 1 / 3.
ReportInputs ==
  { <<>>,
    Rep("A", <<"passed", "passed", "passed">>),
    Rep("A", <<"flaky", "skipped", "failed", "passed">>),
    Rep("B", <<"failed", "passed", "passed">>) }

\* ---------------------------------------------------------------- helpers
Min(a, b) == IF a < b THEN a ELSE b

\* All the sequences that enumerate the finite set S once each.
Perms(S) ==
  { f \in [1..Cardinality(S) -> S] : \A x \in S : \E i \in 1..Cardinality(S) : f[i] = x }

\* ------------------------------------------------------------- analyzer
\* The rows the query of analyzeFlakiness selects: test_results joined with
\* test_runs, of the project, created at or after the cutoff (gte).
\* Mutant of InWindow: the query does not filter on the project of the run.
InWindowAnyProject(projectId, cutoffDate) ==
  { x \in testResults :
      /\ x.createdAt >= cutoffDate
      /\ \E tr \in testRuns : tr.id = x.testRunId }

InWindow(projectId, cutoffDate) ==
  { x \in testResults :
      /\ x.createdAt >= cutoffDate
      /\ \E tr \in testRuns : tr.id = x.testRunId /\ tr.projectId = projectId }

CountStatus(rows, n, s) ==
  Cardinality({ x \in rows : x.testName = n /\ x.status = s })

\* max createdAt of the rows of test n (lastSeen after the grouping loop).
LastSeenOf(rows, n) ==
  CHOOSE t \in { x.createdAt : x \in { y \in rows : y.testName = n } } :
    \A x \in rows : x.testName = n => x.createdAt <= t

\* The entry of testStats for test n; a skipped row adds to no counter.
TestStats(rows, n) ==
  [passCount |-> CountStatus(rows, n, "passed"),
   failCount |-> CountStatus(rows, n, "failed"),
   flakyCount |-> CountStatus(rows, n, "flaky"),
   lastSeen |-> LastSeenOf(rows, n)]

TotalRuns(stats) == stats.passCount + stats.failCount + stats.flakyCount

\* Mutant of IsFlaky: flakeRate > flakeThreshold.
IsFlakyAbove(stats, cfg) ==
  /\ (stats.passCount + stats.failCount + stats.flakyCount) # 0
  /\ (stats.failCount + stats.flakyCount) * cfg.thresholdDen
       > cfg.thresholdNum * (stats.passCount + stats.failCount + stats.flakyCount)

\* flakeRate >= flakeThreshold on the quotient (failCount + flakyCount) /
\* totalRuns; the quotient 0 / 0 is NaN, which compares false.
IsFlaky(stats, cfg) ==
  /\ TotalRuns(stats) # 0
  /\ (stats.failCount + stats.flakyCount) * cfg.thresholdDen
       >= cfg.thresholdNum * TotalRuns(stats)

\* The TestFlakiness pushed for test n.
Flakiness(rows, n, cfg) ==
  LET stats == TestStats(rows, n) IN
  [testName |-> n,
   totalRuns |-> TotalRuns(stats),
   passCount |-> stats.passCount,
   failCount |-> stats.failCount,
   flakyCount |-> stats.flakyCount,
   isFlaky |-> IsFlaky(stats, cfg),
   lastSeen |-> stats.lastSeen]

\* Mutant of Included: a test needs more than minRuns counted runs.
IncludedAbove(rows, n, cfg) == TotalRuns(TestStats(rows, n)) > cfg.minRuns

\* Tests with fewer than minRuns counted runs are skipped.
Included(rows, n, cfg) == ~(TotalRuns(TestStats(rows, n)) < cfg.minRuns)

AnalysisEntries(rows, cfg) ==
  { Flakiness(rows, n, cfg) : n \in { m \in { x.testName : x \in rows } : Included(rows, m, cfg) } }

\* a's flakeRate compared with b's, by cross-multiplication.
RateGreater(a, b) ==
  (a.failCount + a.flakyCount) * b.totalRuns > (b.failCount + b.flakyCount) * a.totalRuns
RateEqual(a, b) ==
  (a.failCount + a.flakyCount) * b.totalRuns = (b.failCount + b.flakyCount) * a.totalRuns

\* The order of the returned array.  The Map is filled from rows ordered by
\* createdAt descending, so its keys are ordered by lastSeen descending (rows
\* of one creation time in the order the store returns them); the stable
\* sort then orders by flakeRate descending.
AnalysisOrdered(s) ==
  \A i, j \in 1..Len(s) :
    i < j =>
      \/ RateGreater(s[i], s[j])
      \/ RateEqual(s[i], s[j]) /\ s[i].lastSeen >= s[j].lastSeen

\* cutoffDate, computed when analyzeFlakiness is called.
CutoffDate(cfg) == now - cfg.windowDays

\* The arrays analyzeFlakiness(projectId, config) may return when its query
\* reads this state.
analyzeFlakiness(projectId, cfg, cutoffDate) ==
  { s \in Perms(AnalysisEntries(InWindow(projectId, cutoffDate), cfg)) : AnalysisOrdered(s) }

\* flakeRate.toFixed(4), in ten-thousandths (round half up).
ToFixed4(num, den) == (2 * num * 10000 + den) \div (2 * den)

\* ----------------------------------------------------------- reconciler
\* existingMap = new Map(existingFlaky.map(f => [f.testName, f])): a later
\* row of a name replaces the value of an earlier one.
MapHas(existing, n) == \E k \in 1..Len(existing) : existing[k].testName = n

MapGet(existing, n) ==
  existing[CHOOSE k \in 1..Len(existing) :
             /\ existing[k].testName = n
             /\ \A m \in 1..Len(existing) : existing[m].testName = n => m <= k]

\* The key of position k is new to the Map (Map iteration order).
FirstOfName(existing, k) == \A m \in 1..(k - 1) : existing[m].testName # existing[k].testName

NoTest ==
  [testName |-> "", totalRuns |-> 0, passCount |-> 0, failCount |-> 0,
   flakyCount |-> 0, isFlaky |-> FALSE, lastSeen |-> 0]

NoOp == [kind |-> "none", testName |-> "", id |-> 0, test |-> NoTest]

\* Mutant of AnalysisOp: the resolve branch tests `existing` alone, not its
\* status.
AnalysisOpNoStatusCheck(test, existing) ==
  IF test.isFlaky
  THEN IF MapHas(existing, test.testName)
       THEN [kind |-> "update", testName |-> test.testName,
             id |-> MapGet(existing, test.testName).id, test |-> test]
       ELSE [kind |-> "insert", testName |-> test.testName, id |-> 0, test |-> test]
  ELSE IF MapHas(existing, test.testName)
       THEN [kind |-> "resolve", testName |-> test.testName,
             id |-> MapGet(existing, test.testName).id, test |-> NoTest]
       ELSE NoOp

\* Mutant of AnalysisOp: only an 'active' row counts as existing.
AnalysisOpActiveOnly(test, existing) ==
  LET has == MapHas(existing, test.testName)
                /\ MapGet(existing, test.testName).status = "active" IN
  IF test.isFlaky
  THEN IF has
       THEN [kind |-> "update", testName |-> test.testName,
             id |-> MapGet(existing, test.testName).id, test |-> test]
       ELSE [kind |-> "insert", testName |-> test.testName, id |-> 0, test |-> test]
  ELSE IF has
       THEN [kind |-> "resolve", testName |-> test.testName,
             id |-> MapGet(existing, test.testName).id, test |-> NoTest]
       ELSE NoOp

\* Mutant of AnalysisOp: the upsert does not test isFlaky.
AnalysisOpNoFlakyCheck(test, existing) ==
  IF MapHas(existing, test.testName)
  THEN [kind |-> "update", testName |-> test.testName,
        id |-> MapGet(existing, test.testName).id, test |-> test]
  ELSE [kind |-> "insert", testName |-> test.testName, id |-> 0, test |-> test]

\* What one iteration of the loop over the analysis awaits.
AnalysisOp(test, existing) ==
  IF test.isFlaky
  THEN IF MapHas(existing, test.testName)
       THEN [kind |-> "update", testName |-> test.testName,
             id |-> MapGet(existing, test.testName).id, test |-> test]
       ELSE [kind |-> "insert", testName |-> test.testName, id |-> 0, test |-> test]
  ELSE IF MapHas(existing, test.testName)
          /\ MapGet(existing, test.testName).status = "active"
       THEN [kind |-> "resolve", testName |-> test.testName,
             id |-> MapGet(existing, test.testName).id, test |-> NoTest]
       ELSE NoOp

\* seenTestNames once the first loop is over.
SeenTestNames(analysis) == { analysis[i].testName : i \in 1..Len(analysis) }

\* Mutant of ExistingOp: no loop over the records the analysis did not see.
ExistingOpNone(existing, k, analysis) == NoOp

\* What the loop over existingMap awaits at the Map entry first set at k.
ExistingOp(existing, k, analysis) ==
  LET n == existing[k].testName IN
  IF /\ FirstOfName(existing, k)
     /\ MapGet(existing, n).status = "active"
     /\ n \notin SeenTestNames(analysis)
  THEN [kind |-> "resolve", testName |-> n, id |-> MapGet(existing, n).id, test |-> NoTest]
  ELSE NoOp

IsWrite(op) == op.kind # "none"

\* The writes of one updateFlakyTests call, in the order it awaits them:
\* both loops decide from the analysis and the rows read before the loops.
Plan(analysis, existing) ==
  SelectSeq([i \in 1..Len(analysis) |-> AnalysisOp(analysis[i], existing)], IsWrite)
  \o SelectSeq([k \in 1..Len(existing) |-> ExistingOp(existing, k, analysis)], IsWrite)

\* Mutant of UpdateSet: the refresh leaves the status as it is.
UpdateSetKeepsStatus(x, test) ==
  [x EXCEPT !.lastSeen = test.lastSeen,
            !.flakeCount = test.failCount + test.flakyCount,
            !.totalRuns = test.totalRuns,
            !.flakeRate = ToFixed4(test.failCount + test.flakyCount, test.totalRuns)]

\* Mutant of UpdateSet: the refresh writes firstDetected as the insert does.
UpdateSetFirstDetected(x, test) ==
  [x EXCEPT !.firstDetected = now,
            !.lastSeen = test.lastSeen,
            !.flakeCount = test.failCount + test.flakyCount,
            !.totalRuns = test.totalRuns,
            !.flakeRate = ToFixed4(test.failCount + test.flakyCount, test.totalRuns),
            !.status = "active"]

\* Mutant of UpdateSet: the refresh stamps lastSeen with the time of the run.
UpdateSetLastSeenNow(x, test) ==
  [x EXCEPT !.lastSeen = now,
            !.flakeCount = test.failCount + test.flakyCount,
            !.totalRuns = test.totalRuns,
            !.flakeRate = ToFixed4(test.failCount + test.flakyCount, test.totalRuns),
            !.status = "active"]

\* Mutant of UpdateSet: the refresh adds the window's count to the stored one.
UpdateSetAccumulates(x, test) ==
  [x EXCEPT !.lastSeen = test.lastSeen,
            !.flakeCount = x.flakeCount + test.failCount + test.flakyCount,
            !.totalRuns = test.totalRuns,
            !.flakeRate = ToFixed4(test.failCount + test.flakyCount, test.totalRuns),
            !.status = "active"]

\* .set({...}) of the update of an existing flaky test.
UpdateSet(x, test) ==
  [x EXCEPT !.lastSeen = test.lastSeen,
            !.flakeCount = test.failCount + test.flakyCount,
            !.totalRuns = test.totalRuns,
            !.flakeRate = ToFixed4(test.failCount + test.flakyCount, test.totalRuns),
            !.status = "active"]

\* .values({...}) of the insert of a new flaky test; the id stands for the
\* generated uuid.
InsertValues(projectId, test) ==
  [id |-> Cardinality(flakyTests) + 1,
   projectId |-> projectId,
   testName |-> test.testName,
   firstDetected |-> now,
   lastSeen |-> test.lastSeen,
   flakeCount |-> test.failCount + test.flakyCount,
   totalRuns |-> test.totalRuns,
   flakeRate |-> ToFixed4(test.failCount + test.flakyCount, test.totalRuns),
   status |-> "active"]

\* .set({ status: 'resolved' })
ResolveSet(x) == [x EXCEPT !.status = "resolved"]

\* Mutant of ApplyOp: resolving a record deletes its row.
ApplyOpResolveDeletes(op, projectId) ==
  CASE op.kind = "update" ->
         { IF x.id = op.id THEN UpdateSet(x, op.test) ELSE x : x \in flakyTests }
    [] op.kind = "insert" ->
         flakyTests \cup { InsertValues(projectId, op.test) }
    [] op.kind = "resolve" ->
         { x \in flakyTests : x.id # op.id }

\* The table after the statement of op has run.
ApplyOp(op, projectId) ==
  CASE op.kind = "update" ->
         { IF x.id = op.id THEN UpdateSet(x, op.test) ELSE x : x \in flakyTests }
    [] op.kind = "insert" ->
         flakyTests \cup { InsertValues(projectId, op.test) }
    [] op.kind = "resolve" ->
         { IF x.id = op.id THEN ResolveSet(x) ELSE x : x \in flakyTests }

\* findMany({ where: eq(flakyTests.projectId, projectId) })
ExistingFlaky(projectId) == { x \in flakyTests : x.projectId = projectId }

\* The counters a call returns, after its first k writes.
CountKind(plan, k, kinds) == Cardinality({ i \in 1..k : plan[i].kind \in kinds })
Updated(run) == CountKind(run.plan, run.i, {"update", "insert"})
Resolved(run) == CountKind(run.plan, run.i, {"resolve"})

\* ----------------------------------------------------------------- parser
\* A JSON object is a record, an absent key is a key outside its DOMAIN, a
\* JSON array is a sequence and a title, which the parser inspects and joins,
\* is the sequence of its characters.
Opt(v, f, d) == IF f \in DOMAIN v THEN v[f] ELSE d

\* String.prototype.endsWith and includes (of one character).
EndsWith(s, suffix) ==
  /\ Len(s) >= Len(suffix)
  /\ SubSeq(s, Len(s) - Len(suffix) + 1, Len(s)) = suffix
Includes(s, ch) == \E i \in 1..Len(s) : s[i] = ch

\* Array.prototype.join.
RECURSIVE Join(_, _)
Join(parts, sep) ==
  IF Len(parts) = 0 THEN <<>>
  ELSE IF Len(parts) = 1 THEN parts[1]
  ELSE parts[1] \o sep \o Join(Tail(parts), sep)

\* The enum of TestResultSchema.status.
AttemptStatuses == {"passed", "failed", "timedOut", "skipped", "interrupted"}

\* TestResultSchema, TestCaseSchema, SuiteSchema and PlaywrightReportSchema:
\* the required keys are present and status is of the enum.
TestResultSchema(r) ==
  /\ {"workerIndex", "status", "duration", "retry", "startTime"} \subseteq DOMAIN r
  /\ r.status \in AttemptStatuses

TestCaseSchema(c) ==
  /\ {"title", "ok"} \subseteq DOMAIN c
  /\ \A i \in 1..Len(Opt(c, "results", <<>>)) : TestResultSchema(c.results[i])

RECURSIVE SuiteSchema(_)
SuiteSchema(suite) ==
  /\ "title" \in DOMAIN suite
  /\ \A i \in 1..Len(Opt(suite, "specs", <<>>)) : TestCaseSchema(suite.specs[i])
  /\ \A i \in 1..Len(Opt(suite, "suites", <<>>)) : SuiteSchema(suite.suites[i])

PlaywrightReportSchema(raw) ==
  /\ {"config", "suites"} \subseteq DOMAIN raw
  /\ \A i \in 1..Len(raw.suites) : SuiteSchema(raw.suites[i])

\* suite.title.endsWith('.ts') || suite.title.endsWith('.js') ||
\* suite.title.includes('/'), of a non-empty title.
isFileSuite(title) ==
  /\ title # <<>>
  /\ \/ EndsWith(title, <<".", "t", "s">>)
     \/ EndsWith(title, <<".", "j", "s">>)
     \/ Includes(title, "/")

\* extractSpecs(suites, parentFile, titlePath): the specs of the suites and of
\* their nested suites, depth first, each with its file and title path.
RECURSIVE extractSpecs(_, _, _)
extractSpecs(suites, parentFile, titlePath) ==
  IF Len(suites) = 0 THEN <<>>
  ELSE
    LET suite == Head(suites)
        currentFile == IF Opt(suite, "file", "") # "" THEN suite.file ELSE parentFile
        currentTitlePath ==
          IF isFileSuite(suite.title) THEN titlePath
          ELSE IF suite.title # <<>> THEN Append(titlePath, suite.title)
          ELSE titlePath
        specs == Opt(suite, "specs", <<>>)
        own == [i \in 1..Len(specs) |->
                  [spec |-> specs[i], file |-> currentFile, titlePath |-> currentTitlePath]]
    IN own \o extractSpecs(Opt(suite, "suites", <<>>), currentFile, currentTitlePath)
           \o extractSpecs(Tail(suites), parentFile, titlePath)

\* The separator literal of buildTestName, character by character: a space,
\* a with circumflex, the euro sign, the masculine ordinal indicator, a space.
Separator == <<" ", "a-circumflex", "euro", "ordinal-masculine", " ">>

buildTestName(titlePath, specTitle) == Join(Append(titlePath, specTitle), Separator)

\* Mutant of determineStatus: flaky only when a failure comes before a pass.
determineStatusRetryOnly(results) ==
  IF Len(results) = 0 THEN "skipped"
  ELSE IF \A i \in 1..Len(results) : results[i].status = "skipped" THEN "skipped"
  ELSE IF \E i, j \in 1..Len(results) :
            /\ i < j
            /\ results[i].status \in {"failed", "timedOut"}
            /\ results[j].status = "passed"
       THEN "flaky"
  ELSE IF results[Len(results)].status = "passed" THEN "passed"
  ELSE IF results[Len(results)].status = "skipped" THEN "skipped"
  ELSE "failed"

\* Mutant of determineStatus: an interrupted last attempt counts as skipped.
determineStatusInterruptedSkipped(results) ==
  IF Len(results) = 0 THEN "skipped"
  ELSE IF \A i \in 1..Len(results) : results[i].status = "skipped" THEN "skipped"
  ELSE IF /\ \E i \in 1..Len(results) : results[i].status = "passed"
          /\ \E i \in 1..Len(results) : results[i].status \in {"failed", "timedOut"}
       THEN "flaky"
  ELSE IF results[Len(results)].status = "passed" THEN "passed"
  ELSE IF results[Len(results)].status \in {"skipped", "interrupted"} THEN "skipped"
  ELSE "failed"

\* determineStatus(results)
determineStatus(results) ==
  IF Len(results) = 0 THEN "skipped"
  ELSE
    LET hasPass == \E i \in 1..Len(results) : results[i].status = "passed"
        hasFail == \E i \in 1..Len(results) : results[i].status \in {"failed", "timedOut"}
        allSkipped == \A i \in 1..Len(results) : results[i].status = "skipped"
        lastResult == results[Len(results)]
    IN IF allSkipped THEN "skipped"
       ELSE IF hasPass /\ hasFail THEN "flaky"
       ELSE IF lastResult.status = "passed" THEN "passed"
       ELSE IF lastResult.status = "skipped" THEN "skipped"
       ELSE "failed"

\* null, for errorMessage.
Null == "null"

\* result.error?.message, and result.errors[0].message; a missing message
\* and the empty message are both falsy.
ErrorMessageOf(result) ==
  IF "error" \in DOMAIN result THEN Opt(result.error, "message", "") ELSE ""
FirstOfErrors(result) == Opt(result.errors[1], "message", "")

\* extractErrorMessage(results)
RECURSIVE extractErrorMessage(_)
extractErrorMessage(results) ==
  IF Len(results) = 0 THEN Null
  ELSE
    LET result == Head(results) IN
    IF ErrorMessageOf(result) # "" THEN ErrorMessageOf(result)
    ELSE IF Len(Opt(result, "errors", <<>>)) > 0
         THEN (IF FirstOfErrors(result) # "" THEN FirstOfErrors(result) ELSE Null)
    ELSE extractErrorMessage(Tail(results))

\* Mutant of calculateDuration: the duration of the last attempt.
calculateDurationLast(results) ==
  IF Len(results) = 0 THEN 0 ELSE results[Len(results)].duration

\* calculateDuration(results): results.reduce((sum, r) => sum + (r.duration || 0), 0)
RECURSIVE calculateDuration(_)
calculateDuration(results) ==
  IF Len(results) = 0 THEN 0
  ELSE Head(results).duration + calculateDuration(Tail(results))

Max(a, b) == IF a > b THEN a ELSE b

\* Mutant of RetryCount: the number of attempts.
RetryCountAttempts(results) == Len(results)

\* Math.max(0, spec.results.length - 1)
RetryCount(results) == Max(0, Len(results) - 1)

\* startedAt and finishedAt when no attempt has set them.
NullDate == -1

\* The attempts of the retained specs that carry a start time (a startTime
\* is the instant its string denotes; 0 stands for the empty string).
Timed(retained) ==
  { r \in UNION { { e.spec.results[i] : i \in 1..Len(e.spec.results) } :
                    e \in { retained[k] : k \in 1..Len(retained) } } :
      r.startTime # 0 }

\* The earliest start and the latest end of the attempts.
StartedAt(retained) ==
  IF Timed(retained) = {} THEN NullDate
  ELSE CHOOSE t \in { r.startTime : r \in Timed(retained) } :
         \A r \in Timed(retained) : t <= r.startTime
FinishedAt(retained) ==
  IF Timed(retained) = {} THEN NullDate
  ELSE CHOOSE t \in { r.startTime + r.duration : r \in Timed(retained) } :
         \A r \in Timed(retained) : t >= r.startTime + r.duration

\* spec.location?.file || file || spec.file || ''
TestFile(e) ==
  IF "location" \in DOMAIN e.spec /\ e.spec.location.file # "" THEN e.spec.location.file
  ELSE IF e.file # "" THEN e.file
  ELSE Opt(e.spec, "file", "")

\* The ParsedTestResult pushed for an extracted spec with attempts.
ParsedTestResult(e) ==
  [testName |-> buildTestName(e.titlePath, e.spec.title),
   testFile |-> TestFile(e),
   status |-> determineStatus(e.spec.results),
   durationMs |-> calculateDuration(e.spec.results),
   retryCount |-> RetryCount(e.spec.results),
   errorMessage |-> extractErrorMessage(e.spec.results)]

\* Mutant of Retained: only a spec without a results key is skipped.
RetainedWithResultsKey(allSpecs) ==
  SelectSeq(allSpecs, LAMBDA e : "results" \in DOMAIN e.spec)

\* The extracted specs the loop does not skip: those with results.
Retained(allSpecs) ==
  SelectSeq(allSpecs, LAMBDA e : Len(Opt(e.spec, "results", <<>>)) > 0)

RECURSIVE SumDuration(_)
SumDuration(parsedResults) ==
  IF Len(parsedResults) = 0 THEN 0
  ELSE Head(parsedResults).durationMs + SumDuration(Tail(parsedResults))

\* Mutant of CountOutcomes: a flaky outcome is counted with the failed ones too.
CountOutcomesFlakyAsFailed(parsedResults, st) ==
  Cardinality({ i \in 1..Len(parsedResults) :
                  \/ parsedResults[i].status = st
                  \/ st = "failed" /\ parsedResults[i].status = "flaky" })

\* parsedResults.filter(r => r.status === st).length
CountOutcomes(parsedResults, st) ==
  Cardinality({ i \in 1..Len(parsedResults) : parsedResults[i].status = st })

\* What a call that threw leaves in the caller's variable: nothing.
NoParsedReport ==
  [totalTests |-> 0, passed |-> 0, failed |-> 0, skipped |-> 0, flaky |-> 0,
   startedAt |-> NullDate, finishedAt |-> NullDate, durationMs |-> 0, results |-> <<>>]

\* parsePlaywrightReport(rawReport): throws when the schema rejects the
\* report, and returns the ParsedReport otherwise.
parsePlaywrightReport(raw) ==
  IF ~PlaywrightReportSchema(raw) THEN [threw |-> TRUE, report |-> NoParsedReport]
  ELSE
    LET retained == Retained(extractSpecs(raw.suites, "", <<>>))
        parsedResults == [i \in 1..Len(retained) |-> ParsedTestResult(retained[i])]
    IN [threw |-> FALSE,
        report |->
          [totalTests |-> Len(parsedResults),
           passed |-> CountOutcomes(parsedResults, "passed"),
           failed |-> CountOutcomes(parsedResults, "failed"),
           skipped |-> CountOutcomes(parsedResults, "skipped"),
           flaky |-> CountOutcomes(parsedResults, "flaky"),
           startedAt |-> StartedAt(retained),
           finishedAt |-> FinishedAt(retained),
           durationMs |-> SumDuration(parsedResults),
           results |-> parsedResults]]

\* ---------------------------------------------------------- parser inputs
\* An attempt, a spec and a suite of the JSON reporter.
Attempt(st, d) ==
  [workerIndex |-> 0, status |-> st, duration |-> d, retry |-> 0, startTime |-> 1]
TestCase(title, results) == [title |-> title, ok |-> TRUE, results |-> results]
Suite(title, specs, suites) == [title |-> title, specs |-> specs, suites |-> suites]
Report(suites) == [config |-> [version |-> "1"], suites |-> suites]

Durations == {2100, 2400}

\* Every sequence of at most n attempts with durations in ds.
AttemptSeqs(n, ds) ==
  UNION { [1..k -> { Attempt(st, d) : st \in AttemptStatuses, d \in ds }] : k \in 0..n }

\* Suite titles: none, a describe block, a TypeScript file, a JavaScript
\* file, a path, and a word that ends in ts without the dot.
SuiteTitles ==
  { <<>>, <<"L">>, <<"a", ".", "t", "s">>, <<"a", ".", "j", "s">>, <<"e", "/", "a">>,
    <<"t", "s">> }

SpecTitle == <<"s">>
OnePass == <<Attempt("passed", 2100)>>

\* The suites titled titles[1], titles[2], ..., each nested in the one before
\* and each with one spec of its own.
RECURSIVE Chain(_)
Chain(titles) ==
  Suite(titles[1], <<TestCase(SpecTitle, OnePass)>>,
        IF Len(titles) = 1 THEN <<>> ELSE <<Chain(Tail(titles))>>)

\* Reports of one spec with every sequence of attempts.
SingleReports ==
  { Report(<<Suite(<<"L">>, <<TestCase(SpecTitle, rs)>>, <<>>)>>) :
      rs \in AttemptSeqs(MaxAttempts, Durations) }

\* Reports of two specs of one suite.
PairReports ==
  { Report(<<Suite(<<"L">>, <<TestCase(SpecTitle, r1), TestCase(<<"t">>, r2)>>, <<>>)>>) :
      r1 \in AttemptSeqs(MaxAttempts - 1, {2100}), r2 \in AttemptSeqs(MaxAttempts - 1, {2400}) }

\* Reports of nested suites, and of two suites side by side.
ChainReports ==
  { Report(<<Chain(ts)>>) : ts \in UNION { [1..k -> SuiteTitles] : k \in 1..MaxDepth } }
SiblingReports ==
  { Report(<<Chain(<<t1>>), Chain(<<t2>>)>>) : t1 \in SuiteTitles, t2 \in SuiteTitles }

\* The sample of the parser's test: four passing specs, one that fails and
\* then passes, one that fails twice.
SampleReport ==
  Report(<<
    Suite(<<"e", "/", "a", ".", "t", "s">>, <<>>,
      << Suite(<<"L">>,
           << TestCase(<<"1">>, <<Attempt("passed", 2500)>>),
              TestCase(<<"2">>, <<Attempt("passed", 1800)>>) >>, <<>>) >>),
    Suite(<<"e", "/", "d", ".", "t", "s">>, <<>>,
      << Suite(<<"D">>,
           << TestCase(<<"3">>, <<Attempt("passed", 3200)>>),
              TestCase(<<"4">>, <<Attempt("failed", 2100), Attempt("passed", 2400)>>) >>,
           <<>>) >>),
    Suite(<<"e", "/", "c", ".", "t", "s">>, <<>>,
      << Suite(<<"C">>,
           << TestCase(<<"5">>, <<Attempt("passed", 2800)>>),
              TestCase(<<"6">>, <<Attempt("failed", 5500), Attempt("failed", 5600)>>) >>,
           <<>>) >>) >>)

\* Bodies the schema rejects: no suites and no config, no suites, no config,
\* a suite without a title, an attempt whose status is not of the enum.
InvalidReports ==
  { [invalid |-> "structure"],
    [config |-> [version |-> "1"]],
    [suites |-> <<>>],
    Report(<<[specs |-> <<>>]>>),
    Report(<<Suite(<<"L">>, <<TestCase(SpecTitle, <<Attempt("unknown", 2100)>>)>>, <<>>)>>) }

\* What an attempt can say of its errors (TestErrorSchema: message and stack
\* are both optional): an error with or without a message, an errors array
\* that is empty or whose entries have a message or not, or both keys.
ErrorFields ==
  { [error |-> [message |-> "m1"]],
    [error |-> [message |-> "m4"]],
    [error |-> [stack |-> "s"]],
    [errors |-> <<>>],
    [errors |-> <<[message |-> "m2"]>>],
    [errors |-> <<[stack |-> "s"]>>],
    [errors |-> <<[stack |-> "s"], [message |-> "m3"]>>],
    [error |-> [message |-> "m1"], errors |-> <<[message |-> "m2"]>>] }
ErrorAttempts ==
  {Attempt("failed", 2100)} \cup { Attempt("failed", 2100) @@ e : e \in ErrorFields }

\* Reports of one spec whose one or two attempts failed, with every
\* combination of error fields.
ErrorReports ==
  { Report(<<Suite(<<"L">>, <<TestCase(SpecTitle, rs)>>, <<>>)>>) :
      rs \in UNION { [1..k -> ErrorAttempts] : k \in 1..2 } }

\* A suite or a spec with a file attribute, or without one when f is empty.
WithFile(x, f) == IF f = "" THEN x ELSE x @@ [file |-> f]
WithLocation(x, f) ==
  IF f = "" THEN x ELSE x @@ [location |-> [file |-> f, line |-> 1, column |-> 1]]

\* Reports of one spec in a suite nested in another, where the outer suite,
\* the inner suite and the spec each have a file attribute or none, and the
\* spec a location or none.
FileReports ==
  { Report(<<WithFile(Suite(<<"L">>, <<>>,
               <<WithFile(Suite(<<"M">>,
                   <<WithLocation(WithFile(TestCase(SpecTitle, OnePass), sf), lf)>>, <<>>),
                 f2)>>), f1)>>) :
      f1 \in {"", "f1"}, f2 \in {"", "f2"}, sf \in {"", "sf"}, lf \in {"", "lf"} }

\* Reports of three specs of one suite: one without a results key, and two
\* with no attempt or one attempt each.
ZeroAttemptReports ==
  { Report(<<Suite(<<"L">>,
               <<[title |-> SpecTitle, ok |-> TRUE], TestCase(<<"t">>, r2),
                 TestCase(<<"u">>, r3)>>, <<>>)>>) :
      r2 \in AttemptSeqs(1, {2400}), r3 \in AttemptSeqs(1, {2100}) }

RawReports ==
  SingleReports \cup PairReports \cup ChainReports \cup SiblingReports
    \cup {SampleReport} \cup InvalidReports \cup ErrorReports \cup FileReports
    \cup ZeroAttemptReports

\* ------------------------------------------------------------------ Init
NoResponse == [status |-> 0, total |-> 0]

IdleReq ==
  [pc |-> "idle", id |-> 0, projectId |-> "", results |-> <<>>, txStart |-> 0, inserted |-> 0]

NoRun ==
  [pc |-> "none", projectId |-> "", cutoffDate |-> 0, analysis |-> <<>>, existing |-> <<>>,
   plan |-> <<>>, i |-> 0, final |-> {}]

\* No call of parsePlaywrightReport or analyzeFlakiness taken on its own.
NoRawReport == [none |-> TRUE]
NotParsed == [called |-> FALSE, threw |-> FALSE, report |-> NoParsedReport]
NotAnalyzed == [called |-> FALSE, tests |-> <<>>]

\* The service after start-up, with empty tables.
InitService ==
  /\ now = 0
  /\ testRuns = {}
  /\ testResults = {}
  /\ flakyTests = {}
  /\ req = IdleReq
  /\ nreq = 0
  /\ response = [r \in ReqIds |-> NoResponse]
  /\ runs = [r \in ReqIds |-> NoRun]
  /\ logged = {}
  /\ nignored = 0

Init ==
  /\ InitService
  /\ rawReport = NoRawReport
  /\ parsed = NotParsed
  /\ config = DEFAULT_CONFIG
  /\ analyzed = NotAnalyzed

InFlight(r) == runs[r].pc \in {"analyze", "find", "write"}
NoRunInFlight == req.pc = "idle" /\ \A r \in ReqIds : ~InFlight(r)

\* ---------------------------------------------------------------- actions
\* Time passes.
Tick ==
  /\ \E d \in TickDays : now + d <= MaxNow /\ now' = now + d
  /\ UNCHANGED <<pureVars, testRuns, testResults, flakyTests, req, nreq, response, runs, logged, nignored>>

\* A maintainer marks a flaky test 'ignored' in the store (no route of the
\* API writes this status).  With serial, only between reconciliations.
SetIgnored(serial) ==
  /\ serial => NoRunInFlight
  /\ nignored < MaxIgnores
  /\ nignored' = nignored + 1
  /\ \E x \in flakyTests :
       /\ x.status # "ignored"
       /\ flakyTests' = (flakyTests \ {x}) \cup {[x EXCEPT !.status = "ignored"]}
  /\ UNCHANGED <<pureVars, now, testRuns, testResults, req, nreq, response, runs, logged>>

\* Mutant of ReqReject: the test_runs row is inserted before the report is
\* parsed, and stays when the parser throws.
ReqRejectAfterInsert(serial) ==
  /\ req.pc = "idle"
  /\ nreq < (IF serial THEN MaxRequests ELSE MaxOverlapping)
  /\ serial => NoRunInFlight
  /\ \E raw \in InvalidReports : parsePlaywrightReport(raw).threw
  /\ \E p \in Projects :
       testRuns' = testRuns \cup
         { [id |-> nreq + 1, projectId |-> p, createdAt |-> now, totalTests |-> 0] }
  /\ response' = [response EXCEPT ![nreq + 1] = [status |-> 400, total |-> 0]]
  /\ nreq' = nreq + 1
  /\ UNCHANGED <<pureVars, now, testResults, flakyTests, req, runs, logged, nignored>>

\* reports.post on a body that parsePlaywrightReport throws on: the catch
\* answers 400 and the handler returns before the transaction.
ReqReject(serial) ==
  /\ req.pc = "idle"
  /\ nreq < (IF serial THEN MaxRequests ELSE MaxOverlapping)
  /\ serial => NoRunInFlight
  /\ \E raw \in InvalidReports : parsePlaywrightReport(raw).threw
  /\ response' = [response EXCEPT ![nreq + 1] = [status |-> 400, total |-> 0]]
  /\ nreq' = nreq + 1
  /\ UNCHANGED <<pureVars, now, testRuns, testResults, flakyTests, req, runs, logged, nignored>>

\* reports.post up to its first insert: the report is parsed, the transaction
\* begins and the test_runs row is inserted in it.  With serial, a report
\* arrives only when no reconciliation is running.
ReqBeginIn(serial, projects) ==
  /\ req.pc = "idle"
  /\ nreq < (IF serial THEN MaxRequests ELSE MaxOverlapping)
  /\ serial => NoRunInFlight
  /\ \E p \in projects, body \in ReportInputs :
       req' = [pc |-> "tx", id |-> nreq + 1, projectId |-> p, results |-> body,
               txStart |-> now, inserted |-> 0]
  /\ nreq' = nreq + 1
  /\ UNCHANGED <<pureVars, now, testRuns, testResults, flakyTests, response, runs, logged, nignored>>

\* The same for the one project of Projects.
ReqBegin(serial) == ReqBeginIn(serial, Projects)

\* Mutant of ReqInsertBatch: the batch is inserted with db, outside the
\* transaction, and is visible at once.
ReqInsertBatchNoTx ==
  /\ req.pc = "tx"
  /\ req.inserted < Len(req.results)
  /\ req' = [req EXCEPT !.inserted = Min(req.inserted + BATCH_SIZE, Len(req.results))]
  /\ testResults' = testResults \cup
       { [testRunId |-> req.id, idx |-> k, testName |-> req.results[k].testName,
          status |-> req.results[k].status, createdAt |-> req.txStart] :
           k \in 1..Min(req.inserted + BATCH_SIZE, Len(req.results)) }
  /\ UNCHANGED <<pureVars, now, testRuns, flakyTests, nreq, response, runs, logged, nignored>>

\* One tx.insert(testResults).values(rows.slice(i, i + BATCH_SIZE)).
ReqInsertBatch ==
  /\ req.pc = "tx"
  /\ req.inserted < Len(req.results)
  /\ req' = [req EXCEPT !.inserted = Min(req.inserted + BATCH_SIZE, Len(req.results))]
  /\ UNCHANGED <<pureVars, now, testRuns, testResults, flakyTests, nreq, response, runs, logged, nignored>>

\* A statement of the transaction (or its commit) rejects: the transaction is
\* rolled back, the handler throws and the request is answered 500.
ReqTxFail ==
  /\ req.pc = "tx"
  /\ response' = [response EXCEPT ![req.id] = [status |-> 500, total |-> 0]]
  /\ req' = IdleReq
  /\ UNCHANGED <<pureVars, now, testRuns, testResults, flakyTests, nreq, runs, logged, nignored>>

\* The rows of the transaction: created_at defaults to now(), the start time
\* of the transaction.
RunRow(q) ==
  [id |-> q.id, projectId |-> q.projectId, createdAt |-> q.txStart,
   totalTests |-> Len(q.results)]

ResultRows(q, upTo) ==
  { [testRunId |-> q.id, idx |-> k, testName |-> q.results[k].testName,
     status |-> q.results[k].status, createdAt |-> q.txStart] : k \in 1..upTo }

\* The transaction commits: its rows become visible to the other readers.
ReqCommit ==
  /\ req.pc = "tx"
  /\ req.inserted = Len(req.results)
  /\ testRuns' = testRuns \cup { RunRow(req) }
  /\ testResults' = testResults \cup ResultRows(req, req.inserted)
  /\ req' = [req EXCEPT !.pc = "committed"]
  /\ UNCHANGED <<pureVars, now, flakyTests, nreq, response, runs, logged, nignored>>

\* Mutant of ReqTrigger: updateFlakyTests is called inside the transaction
\* callback, after the last insert and before the commit.
ReqTriggerBeforeCommit ==
  /\ req.pc = "tx"
  /\ req.inserted = Len(req.results)
  /\ runs[req.id].pc = "none"
  /\ runs' = [runs EXCEPT ![req.id] =
                [NoRun EXCEPT !.pc = "analyze", !.projectId = req.projectId,
                              !.cutoffDate = CutoffDate(DEFAULT_CONFIG)]]
  /\ UNCHANGED <<pureVars, now, testRuns, testResults, flakyTests, req, nreq, response, logged,
                 nignored>>

\* After the transaction: updateFlakyTests(project.id) is called and not
\* awaited (it runs up to its first query), and the request is answered 201.
ReqTrigger ==
  /\ req.pc = "committed"
  /\ runs' = [runs EXCEPT ![req.id] =
                [NoRun EXCEPT !.pc = "analyze", !.projectId = req.projectId,
                              !.cutoffDate = CutoffDate(DEFAULT_CONFIG)]]
  /\ response' = [response EXCEPT ![req.id] = [status |-> 201, total |-> Len(req.results)]]
  /\ req' = IdleReq
  /\ UNCHANGED <<pureVars, now, testRuns, testResults, flakyTests, nreq, logged, nignored>>

\* updateFlakyTests: the query of analyzeFlakiness answers.
RunAnalyze(r) ==
  /\ runs[r].pc = "analyze"
  /\ \E a \in analyzeFlakiness(runs[r].projectId, DEFAULT_CONFIG, runs[r].cutoffDate) :
       runs' = [runs EXCEPT ![r].analysis = a, ![r].pc = "find"]
  /\ UNCHANGED <<pureVars, now, testRuns, testResults, flakyTests, req, nreq, response, logged, nignored>>

\* updateFlakyTests: findMany answers, in an order the store chooses; the
\* call runs on to its first write, or returns when it has none.
RunFind(r) ==
  /\ runs[r].pc = "find"
  /\ \E e \in Perms(ExistingFlaky(runs[r].projectId)) :
       LET plan == Plan(runs[r].analysis, e) IN
       runs' = [runs EXCEPT ![r].existing = e,
                            ![r].plan = plan,
                            ![r].pc = IF Len(plan) = 0 THEN "done" ELSE "write",
                            ![r].final = IF Len(plan) = 0
                                         THEN ExistingFlaky(runs[r].projectId) ELSE {}]
  /\ UNCHANGED <<pureVars, now, testRuns, testResults, flakyTests, req, nreq, response, logged, nignored>>

\* updateFlakyTests: the next awaited insert or update runs; after the last
\* one the call returns { updated, resolved }.
RunWrite(r) ==
  /\ runs[r].pc = "write"
  /\ LET op == runs[r].plan[runs[r].i + 1]
         after == ApplyOp(op, runs[r].projectId)
         last == runs[r].i + 1 = Len(runs[r].plan)
     IN /\ flakyTests' = after
        /\ runs' = [runs EXCEPT ![r].i = runs[r].i + 1,
                                ![r].pc = IF last THEN "done" ELSE "write",
                                ![r].final = IF last
                                             THEN { x \in after : x.projectId = runs[r].projectId }
                                             ELSE {}]
  /\ UNCHANGED <<pureVars, now, testRuns, testResults, req, nreq, response, logged, nignored>>

\* Mutant of RunFail: the handler awaits updateFlakyTests inside the
\* transaction, so its failure rolls the submission back and answers 500.
RunFailPropagates(r) ==
  /\ InFlight(r)
  /\ runs' = [runs EXCEPT ![r] = [NoRun EXCEPT !.pc = "failed", !.projectId = runs[r].projectId]]
  /\ testRuns' = { tr \in testRuns : tr.id # r }
  /\ testResults' = { x \in testResults : x.testRunId # r }
  /\ response' = [response EXCEPT ![r] = [status |-> 500, total |-> 0]]
  /\ UNCHANGED <<pureVars, now, flakyTests, req, nreq, logged, nignored>>

\* updateFlakyTests rejects at the read or write it awaits; the .catch of
\* reports.post logs the failure.  The writes already awaited stay applied:
\* the record of the call keeps what it had read and issued, and final notes
\* the rows of the project it leaves behind.
RunFail(r) ==
  /\ InFlight(r)
  /\ runs' = [runs EXCEPT ![r].pc = "failed", ![r].final = ExistingFlaky(runs[r].projectId)]
  /\ logged' = logged \cup {r}
  /\ UNCHANGED <<pureVars, now, testRuns, testResults, flakyTests, req, nreq, response, nignored>>

NextOf(serial) ==
  \/ Tick
  \/ SetIgnored(serial)
  \/ ReqReject(serial)
  \/ ReqBegin(serial)
  \/ ReqInsertBatch
  \/ ReqTxFail
  \/ ReqCommit
  \/ ReqTrigger
  \/ \E r \in ReqIds : RunAnalyze(r)
  \/ \E r \in ReqIds : RunFind(r)
  \/ \E r \in ReqIds : RunWrite(r)
  \/ \E r \in ReqIds : RunFail(r)

\* Reports and reconciliations in any interleaving.
Next == NextOf(FALSE)
Spec == Init /\ [][Next]_vars

\* Reconciliations that never overlap: a report arrives, and a maintainer
\* writes, only when no reconciliation is running.
NextSeq == NextOf(TRUE)
SpecSeq == Init /\ [][NextSeq]_vars

\* Reports of two projects, with tests of the same names, and their
\* reconciliations in any interleaving.
BothProjects == {"p1", "p2"}
NextProjects ==
  \/ ReqBeginIn(FALSE, BothProjects)
  \/ ReqInsertBatch
  \/ ReqTxFail
  \/ ReqCommit
  \/ ReqTrigger
  \/ \E r \in ReqIds : RunAnalyze(r)
  \/ \E r \in ReqIds : RunFind(r)
  \/ \E r \in ReqIds : RunWrite(r)
  \/ \E r \in ReqIds : RunFail(r)
SpecProjects == Init /\ [][NextProjects]_vars

\* ------------------------------------------------- the parser on its own
\* A raw report is handed to parsePlaywrightReport.
InitParser ==
  /\ InitService
  /\ rawReport \in RawReports
  /\ parsed = NotParsed
  /\ config = DEFAULT_CONFIG
  /\ analyzed = NotAnalyzed

\* parsePlaywrightReport(rawReport) returns or throws.
Parse ==
  /\ ~parsed.called
  /\ LET out == parsePlaywrightReport(rawReport) IN
       parsed' = [called |-> TRUE, threw |-> out.threw, report |-> out.report]
  /\ UNCHANGED <<now, testRuns, testResults, flakyTests, req, nreq, response, runs, logged,
                 nignored, rawReport, config, analyzed>>

NextParser == Parse
SpecParser == InitParser /\ [][NextParser]_vars

\* ------------------------------------------------ the analyzer on its own
\* const { windowDays, flakeThreshold, minRuns } = { ...DEFAULT_CONFIG, ...config }
MergeConfig(partial) ==
  [windowDays |-> Opt(partial, "windowDays", DEFAULT_CONFIG.windowDays),
   thresholdNum |-> IF "flakeThreshold" \in DOMAIN partial THEN partial.flakeThreshold.num
                    ELSE DEFAULT_CONFIG.thresholdNum,
   thresholdDen |-> IF "flakeThreshold" \in DOMAIN partial THEN partial.flakeThreshold.den
                    ELSE DEFAULT_CONFIG.thresholdDen,
   minRuns |-> Opt(partial, "minRuns", DEFAULT_CONFIG.minRuns)]

\* The configurations handed in: none, a threshold of 0, 0.05 or 0.10, a
\* minRuns of 0, 1, 3 or 10, and a window of 7 or 20 days.
Thresholds == { [num |-> 0, den |-> 100], [num |-> 5, den |-> 100], [num |-> 10, den |-> 100] }
MinRunsCases == {0, 1, 3, 10}
ConfigInputs ==
  { <<>> }
    \cup { [flakeThreshold |-> t] : t \in Thresholds }
    \cup { [minRuns |-> m] : m \in MinRunsCases }
    \cup { [flakeThreshold |-> t, minRuns |-> m] : t \in Thresholds, m \in MinRunsCases }
    \cup { [windowDays |-> w] : w \in {7, 20} }

\* How many outcomes of each status a test has.
Counts(p, f, k, s) == [passed |-> p, failed |-> f, flaky |-> k, skipped |-> s]
CountTotal(c) == c.passed + c.failed + c.flaky + c.skipped

\* The cases of the analyzer's tests: 1 failure in 20 runs, 10 failures of
\* 10, 3 passes, 3 passes and 2 failures, 1 pass and 1 failure; and only
\* skipped outcomes.
NamedCounts ==
  { Counts(19, 1, 0, 0), Counts(0, 10, 0, 0), Counts(3, 0, 0, 0), Counts(3, 2, 0, 0),
    Counts(1, 1, 0, 0), Counts(0, 0, 0, 3) }

CountInputs ==
  NamedCounts \cup
    { Counts(p, f, k, s) : p \in 0..MaxCount, f \in 0..MaxCount, k \in 0..MaxCount,
                           s \in 0..MaxCount }

\* The rows of test_results of run runId for c outcomes of test n.
StatusAt(c, i) ==
  IF i <= c.passed THEN "passed"
  ELSE IF i <= c.passed + c.failed THEN "failed"
  ELSE IF i <= c.passed + c.failed + c.flaky THEN "flaky"
  ELSE "skipped"

OutcomeRows(runId, n, c, createdAt) ==
  { [testRunId |-> runId, idx |-> i, testName |-> n, status |-> StatusAt(c, i),
     createdAt |-> createdAt] : i \in 1..CountTotal(c) }

\* The tables hold a run of today with outcomes of A and B and, or not, a run
\* of day 0 with three failures of A; a configuration is handed in.
InitAnalyzer ==
  /\ now = MaxNow
  /\ \E a \in CountInputs, old \in BOOLEAN,
        b \in { Counts(0, 0, 0, 0), Counts(1, 1, 1, 0), Counts(0, 0, 0, 1), Counts(3, 0, 0, 0) } :
       /\ testRuns =
            { [id |-> 1, projectId |-> "p1", createdAt |-> MaxNow,
               totalTests |-> CountTotal(a) + CountTotal(b)] }
              \cup (IF old THEN { [id |-> 2, projectId |-> "p1", createdAt |-> 0,
                                   totalTests |-> 3] }
                    ELSE {})
       /\ testResults =
            OutcomeRows(1, "A", a, MaxNow) \cup OutcomeRows(1, "B", b, MaxNow)
              \cup (IF old THEN OutcomeRows(2, "A", Counts(0, 3, 0, 0), 0) ELSE {})
  /\ flakyTests = {}
  /\ req = IdleReq
  /\ nreq = 0
  /\ response = [r \in ReqIds |-> NoResponse]
  /\ runs = [r \in ReqIds |-> NoRun]
  /\ logged = {}
  /\ nignored = 0
  /\ rawReport = NoRawReport
  /\ parsed = NotParsed
  /\ config \in ConfigInputs
  /\ analyzed = NotAnalyzed

\* analyzeFlakiness("p1", config) returns.
Analyze ==
  /\ ~analyzed.called
  /\ \E tests \in analyzeFlakiness("p1", MergeConfig(config), CutoffDate(MergeConfig(config))) :
       analyzed' = [called |-> TRUE, tests |-> tests]
  /\ UNCHANGED <<now, testRuns, testResults, flakyTests, req, nreq, response, runs, logged,
                 nignored, rawReport, parsed, config>>

NextAnalyzer == Analyze
SpecAnalyzer == InitAnalyzer /\ [][NextAnalyzer]_vars

\* ------------------------------------------------------------ properties
Range(f) == { f[i] : i \in 1..Len(f) }

Done(r) == runs[r].pc = "done"

\* The names a run's analysis reports with isFlaky = true.
FlakyNames(analysis) == { t.testName : t \in { u \in Range(analysis) : u.isFlaky } }

\* The writes a run has issued so far.
Issued(r) == { runs[r].plan[i] : i \in 1..runs[r].i }
IssuedCount(r, kinds, n) ==
  Cardinality({ i \in 1..runs[r].i : runs[r].plan[i].kind \in kinds /\ runs[r].plan[i].testName = n })

\* At most one flaky_tests row per (project, test name).
UniqueKey ==
  \A x, y \in flakyTests : x.projectId = y.projectId /\ x.testName = y.testName => x = y

\* C1: an 'ignored' record is never written by a reconciliation: whatever
\* the analysis says, the row stays as it is (status, lastSeen, flakeCount,
\* totalRuns, flakeRate).  No other action of the model writes an ignored row.
C1_IgnoredNeverWritten ==
  [][\A x \in flakyTests : x.status = "ignored" => x \in flakyTests']_vars

\* Run r2 repeats run r1: both completed, r2 got the same analysis entries
\* and read as existing records the state r1 left.
Repeats(r1, r2) ==
  /\ r1 < r2
  /\ Done(r1) /\ Done(r2)
  /\ runs[r1].projectId = runs[r2].projectId
  /\ Range(runs[r2].analysis) = Range(runs[r1].analysis)
  /\ Range(runs[r2].existing) = runs[r1].final

\* C2 as stated: a run that repeats another performs zero upserts and zero
\* resolves (it returns updated = 0 and resolved = 0).
C2_SecondRunNoActions ==
  \A r1, r2 \in ReqIds :
    Repeats(r1, r2) => Updated(runs[r2]) = 0 /\ Resolved(runs[r2]) = 0

\* C2 amended: a run that repeats another performs zero resolves and zero
\* inserts; it issues one update per name the analysis reports flaky
\* (updated = number of flaky names) and leaves every record as it was.
C2_SecondRunOnlyRefreshes ==
  \A r1, r2 \in ReqIds :
    Repeats(r1, r2) =>
      /\ Resolved(runs[r2]) = 0
      /\ \A op \in Issued(r2) : op.kind = "update"
      /\ Updated(runs[r2]) = Cardinality(FlakyNames(runs[r2].analysis))
      /\ runs[r2].final = runs[r1].final

\* C2 witness: a repeating run that did issue updates.
C2_Witness ==
  \E r1, r2 \in ReqIds : Repeats(r1, r2) /\ Updated(runs[r2]) > 0

\* C3: also when reconciliations overlap, flaky_tests never holds two rows
\* of one (project, test name).
C3_UniqueUnderOverlap == UniqueKey

\* C4: with reconciliations that do not overlap there is at most one record
\* per (project, test name), and a run never inserts a record for a name that
\* had a record (active, resolved or ignored) when it read the table.
C4_OneRecordPerName ==
  /\ \A x, y \in flakyTests : x.projectId = y.projectId /\ x.testName = y.testName => x.id = y.id
  /\ \A r \in ReqIds : \A op \in Issued(r) :
       op.kind = "insert" => ~MapHas(runs[r].existing, op.testName)

\* C4 witness: a completed run refreshed the one record of a test that was
\* 'resolved' or 'ignored' when the run read it.
C4_Witness ==
  \E r \in ReqIds :
    /\ Done(r)
    /\ \E op \in Issued(r) :
         /\ op.kind = "update"
         /\ MapGet(runs[r].existing, op.testName).status \in {"resolved", "ignored"}
         /\ Cardinality({ x \in flakyTests : x.testName = op.testName }) = 1

\* An existing record the run has to resolve: active when read, its name not
\* flaky in the analysis (reported with isFlaky = false, or not reported).
ToResolve(r) ==
  { x \in Range(runs[r].existing) :
      x.status = "active" /\ x.testName \notin FlakyNames(runs[r].analysis) }

\* C5: a completed run has set every such record to 'resolved', each by
\* exactly one resolve action.
C5_ActiveNotFlakyResolved ==
  \A r \in ReqIds :
    Done(r) =>
      \A x \in ToResolve(r) :
        /\ Cardinality({ i \in 1..runs[r].i :
                           runs[r].plan[i].kind = "resolve" /\ runs[r].plan[i].id = x.id }) = 1
        /\ \E y \in runs[r].final : y.id = x.id /\ y.status = "resolved"

\* C5 witness: one completed run resolved a record whose test it saw as not
\* flaky and a record whose test was absent from its analysis.
C5_Witness ==
  \E r \in ReqIds :
    /\ Done(r)
    /\ \E x, y \in ToResolve(r) :
         /\ x.testName \in SeenTestNames(runs[r].analysis)
         /\ y.testName \notin SeenTestNames(runs[r].analysis)

\* The record y carries the figures of the analysis entry t; the stored rate
\* is the quotient at four decimals.
Refreshed(y, t) ==
  /\ y.status = "active"
  /\ y.lastSeen = t.lastSeen
  /\ y.flakeCount = t.failCount + t.flakyCount
  /\ y.totalRuns = t.totalRuns
  /\ 2 * y.flakeRate * t.totalRuns >= 2 * 10000 * (t.failCount + t.flakyCount) - t.totalRuns
  /\ 2 * y.flakeRate * t.totalRuns <= 2 * 10000 * (t.failCount + t.flakyCount) + t.totalRuns

\* C6: after a completed run every name the analysis reports flaky has an
\* 'active' record with the figures of that analysis, whatever the record
\* was before (absent, active, resolved).
C6_FlakyEndsActive ==
  \A r \in ReqIds :
    Done(r) =>
      \A t \in Range(runs[r].analysis) :
        t.isFlaky => \E y \in runs[r].final : y.testName = t.testName /\ Refreshed(y, t)

\* C6 witness: a completed run reactivated a record that was 'resolved'.
C6_Witness ==
  \E r \in ReqIds :
    /\ Done(r)
    /\ \E t \in Range(runs[r].analysis) :
         /\ t.isFlaky
         /\ MapHas(runs[r].existing, t.testName)
         /\ MapGet(runs[r].existing, t.testName).status = "resolved"
         /\ \E y \in runs[r].final : y.testName = t.testName /\ Refreshed(y, t)

\* C7: no step changes the firstDetected of a record that exists.
C7_FirstDetectedFrozen ==
  [][\A x \in flakyTests : \A y \in flakyTests' : y.id = x.id => y.firstDetected = x.firstDetected]_vars

\* C7 witness: a record first detected on an earlier day was reactivated
\* from 'resolved' by a completed run.
C7_Witness ==
  \E r \in ReqIds :
    /\ Done(r)
    /\ \E op \in Issued(r) :
         /\ op.kind = "update"
         /\ MapGet(runs[r].existing, op.testName).status = "resolved"
         /\ \E y \in runs[r].final : y.id = op.id /\ y.firstDetected < y.lastSeen

\* C8: a run upserts only names its analysis reports flaky, and a completed
\* run has issued exactly one resolve for each active record whose name the
\* analysis does not contain.
C8_RenamedResolvedOnce ==
  \A r \in ReqIds :
    /\ \A op \in Issued(r) :
         op.kind \in {"insert", "update"} => op.testName \in FlakyNames(runs[r].analysis)
    /\ Done(r) =>
         \A x \in Range(runs[r].existing) :
           x.status = "active" /\ x.testName \notin SeenTestNames(runs[r].analysis)
             => IssuedCount(r, {"resolve"}, x.testName) = 1

\* C8 witness: a completed run whose analysis lacks the active test A and
\* holds another, flaky, name: one resolve, for A, and one upsert.
C8_Witness ==
  \E r \in ReqIds :
    /\ Done(r)
    /\ \E x \in Range(runs[r].existing) :
         /\ x.status = "active"
         /\ x.testName \notin SeenTestNames(runs[r].analysis)
         /\ Resolved(runs[r]) = 1
    /\ Updated(runs[r]) = 1

\* The run of submission r and all its outcome rows are stored.
Stored(r) ==
  \E tr \in testRuns :
    /\ tr.id = r
    /\ tr.totalTests = response[r].total
    /\ Cardinality({ x \in testResults : x.testRunId = r }) = tr.totalTests

\* C9: when the reconciliation of a submission has failed, the submission
\* was answered 201, its run and outcomes are stored, and the failure is in
\* the log.
C9_FailureOnlyLogged ==
  \A r \in ReqIds :
    runs[r].pc = "failed" => response[r].status = 201 /\ Stored(r) /\ r \in logged

\* C9 witness: a failed reconciliation of a submission that stored outcomes.
C9_Witness ==
  \E r \in ReqIds :
    /\ runs[r].pc = "failed"
    /\ response[r].status = 201
    /\ response[r].total > 0
    /\ Stored(r)

\* C10: in every state a reader sees, a test run row is there iff all its
\* outcome rows are; nothing of a transaction in progress is visible and
\* nothing of a submission answered 500 is stored.
C10_RunAndOutcomesAtomic ==
  /\ \A tr \in testRuns :
       Cardinality({ x \in testResults : x.testRunId = tr.id }) = tr.totalTests
  /\ \A x \in testResults : \E tr \in testRuns : tr.id = x.testRunId
  /\ req.pc = "tx" =>
       /\ \A tr \in testRuns : tr.id # req.id
       /\ \A x \in testResults : x.testRunId # req.id
  /\ \A r \in ReqIds :
       response[r].status = 500 =>
         /\ \A tr \in testRuns : tr.id # r
         /\ \A x \in testResults : x.testRunId # r

\* C10 witness: a transaction between two of its batches while an analysis
\* of an earlier submission is about to read.
C10_Witness ==
  /\ req.pc = "tx"
  /\ req.inserted > 0
  /\ req.inserted < Len(req.results)
  /\ \E r \in ReqIds : runs[r].pc = "analyze"

\* C11: a report that fails validation yields no partial result and is
\* answered 400; no test_runs row and no test_results row is stored for that
\* request and no reconciliation is started for it.
C11_RejectedStoresNothing ==
  /\ \A raw \in InvalidReports :
       parsePlaywrightReport(raw) = [threw |-> TRUE, report |-> NoParsedReport]
  /\ \A r \in ReqIds :
       response[r].status = 400 =>
         /\ \A tr \in testRuns : tr.id # r
         /\ \A x \in testResults : x.testRunId # r
         /\ runs[r] = NoRun
         /\ r \notin logged

\* A rejected submission next to a stored one.
C11_Witness ==
  \E r, q \in ReqIds :
    /\ response[r].status = 400
    /\ response[q].status = 201
    /\ \E tr \in testRuns : tr.id = q

\* The call of parsePlaywrightReport has returned a report.
Returned == parsed.called /\ ~parsed.threw

\* The outcomes returned, and the attempts in the raw report of the spec
\* that outcome i was emitted for.
Outcomes == parsed.report.results
Emitting == IF Returned THEN Retained(extractSpecs(rawReport.suites, "", <<>>)) ELSE <<>>
AttemptsOf(i) == Emitting[i].spec.results

HasStatus(a, sts) == \E k \in 1..Len(a) : a[k].status \in sts
PassAndFail(a) == HasStatus(a, {"passed"}) /\ HasStatus(a, {"failed", "timedOut"})
Permuted(a, p) == [k \in 1..Len(a) |-> a[p[k]]]

C13_LastAttemptDecides ==
  Returned =>
    \A i \in 1..Len(Outcomes) :
      LET a == AttemptsOf(i)
          last == a[Len(a)].status
      IN (Len(a) >= 1 /\ ~PassAndFail(a)) =>
           IF \A k \in 1..Len(a) : a[k].status = "skipped"
           THEN Outcomes[i].status = "skipped"
           ELSE /\ last = "passed" => Outcomes[i].status = "passed"
                /\ last = "skipped" => Outcomes[i].status = "skipped"
                /\ last \in {"failed", "timedOut", "interrupted"} => Outcomes[i].status = "failed"

\* A spec that passes and is then interrupted has been reported failed.
C13_Witness ==
  /\ Returned
  /\ \E i \in 1..Len(Outcomes) :
       /\ Len(AttemptsOf(i)) = 2
       /\ AttemptsOf(i)[1].status = "passed"
       /\ AttemptsOf(i)[2].status = "interrupted"
       /\ Outcomes[i].status = "failed"

\* A title that ends in a recognized source extension or holds a path
\* separator.
LooksLikeFile(title) ==
  \/ EndsWith(title, <<".", "t", "s">>)
  \/ EndsWith(title, <<".", "j", "s">>)
  \/ Includes(title, "/")

\* The separator " > " with the single right-pointing angle quotation mark.
AngleSeparator == <<" ", "right-angle-quote", " ">>

\* The names of the specs with attempts, suite by suite: the titles of the
\* ancestor suites that do not look like a file, root first, then the
\* spec's title, joined with the angle separator.
RECURSIVE NamesByTitles(_, _)
NamesByTitles(suites, path) ==
  IF Len(suites) = 0 THEN <<>>
  ELSE
    LET suite == Head(suites)
        here == IF LooksLikeFile(suite.title) THEN path ELSE Append(path, suite.title)
        specs == SelectSeq(Opt(suite, "specs", <<>>),
                           LAMBDA c : Len(Opt(c, "results", <<>>)) > 0)
    IN [i \in 1..Len(specs) |-> Join(Append(here, specs[i].title), AngleSeparator)]
         \o NamesByTitles(Opt(suite, "suites", <<>>), here)
         \o NamesByTitles(Tail(suites), path)

\* C14: a suite whose title looks like a file reference adds nothing to the
\* test name at any depth; the name is the remaining ancestor suite titles,
\* root first, and the spec title, joined with " > " (angle quotation mark).
C14_FileSuitesLeftOut ==
  Returned =>
    [i \in 1..Len(Outcomes) |-> Outcomes[i].testName] = NamesByTitles(rawReport.suites, <<>>)

\* The number of outcomes returned with status st.
WithStatus(st) == Cardinality({ i \in 1..Len(Outcomes) : Outcomes[i].status = st })

\* C15: passed, failed, skipped and flaky are the numbers of outcomes
\* returned with that status and totalTests is the number of outcomes, so
\* totalTests = passed + failed + skipped + flaky; the sample gives total 6,
\* passed 4, failed 1, flaky 1, skipped 0.
C15_CountsAreOutcomeCounts ==
  Returned =>
    LET rep == parsed.report IN
    /\ rep.passed = WithStatus("passed")
    /\ rep.failed = WithStatus("failed")
    /\ rep.skipped = WithStatus("skipped")
    /\ rep.flaky = WithStatus("flaky")
    /\ rep.totalTests = Len(Outcomes)
    /\ rep.totalTests = rep.passed + rep.failed + rep.skipped + rep.flaky
    /\ rawReport = SampleReport =>
         /\ rep.totalTests = 6
         /\ rep.passed = 4
         /\ rep.failed = 1
         /\ rep.flaky = 1
         /\ rep.skipped = 0

\* The sample has been parsed, and it holds a flaky and a failed outcome.
C15_Witness ==
  /\ Returned
  /\ rawReport = SampleReport
  /\ parsed.report.flaky = 1
  /\ parsed.report.failed = 1

\* C16: the retry count of an outcome is its number of attempts minus one and
\* is never negative: 0 for one attempt, 1 for two.
C16_RetryCountIsAttemptsLessOne ==
  Returned =>
    \A i \in 1..Len(Outcomes) :
      /\ Outcomes[i].retryCount = Len(AttemptsOf(i)) - 1
      /\ Outcomes[i].retryCount >= 0
      /\ Len(AttemptsOf(i)) = 1 => Outcomes[i].retryCount = 0
      /\ Len(AttemptsOf(i)) = 2 => Outcomes[i].retryCount = 1

\* A report with an outcome of one attempt and an outcome of two.
C16_Witness ==
  /\ Returned
  /\ \E i, j \in 1..Len(Outcomes) :
       /\ Len(AttemptsOf(i)) = 1 /\ Outcomes[i].retryCount = 0
       /\ Len(AttemptsOf(j)) = 2 /\ Outcomes[j].retryCount = 1

\* The sum of the numbers of a sequence.
RECURSIVE Sum(_)
Sum(ns) == IF Len(ns) = 0 THEN 0 ELSE ns[1] + Sum(Tail(ns))

\* C17: the duration of an outcome is the sum of the durations of all its
\* attempts (2100 and 2400 give 4500), and the report's durationMs is the sum
\* of the durations of the outcomes.
C17_DurationsAreSums ==
  Returned =>
    /\ \A i \in 1..Len(Outcomes) :
         Outcomes[i].durationMs =
           Sum([k \in 1..Len(AttemptsOf(i)) |-> AttemptsOf(i)[k].duration])
    /\ parsed.report.durationMs = Sum([i \in 1..Len(Outcomes) |-> Outcomes[i].durationMs])
    /\ rawReport = SampleReport => parsed.report.durationMs = 25900

\* The sample has been parsed: its retried test of 2100 and 2400 has 4500.
C17_Witness ==
  /\ Returned
  /\ rawReport = SampleReport
  /\ \E i \in 1..Len(Outcomes) :
       /\ AttemptsOf(i)[1].duration = 2100
       /\ AttemptsOf(i)[Len(AttemptsOf(i))].duration = 2400
       /\ Outcomes[i].durationMs = 4500

\* The call of analyzeFlakiness has returned, with the configuration cfg in
\* force; the outcomes of test n in its window, and those that count as runs.
Analyzed == analyzed.called
Effective == MergeConfig(config)
WindowOf(n) ==
  { x \in testResults : x.testName = n /\ x.createdAt >= now - Effective.windowDays }
RunsOf(n) == { x \in WindowOf(n) : x.status \in {"passed", "failed", "flaky"} }
Entries == { analyzed.tests[i] : i \in 1..Len(analyzed.tests) }

\* C18: the result leaves out every test name whose totalRuns (passed, failed
\* and flaky outcomes in the window; skipped ones not counted) is below
\* minRuns and holds every test name whose totalRuns is at least minRuns.
C18_MinRunsDecidesInclusion ==
  Analyzed =>
    \A n \in { x.testName : x \in testResults } :
      WindowOf(n) # {} =>
        ((\E t \in Entries : t.testName = n) = (Cardinality(RunsOf(n)) >= Effective.minRuns))

\* Under a minRuns other than the default, one test is left out and one is
\* kept with exactly minRuns runs.
C18_Witness ==
  /\ Analyzed
  /\ Effective.minRuns = 1
  /\ \E t \in Entries : t.testName = "A" /\ t.totalRuns = 1
  /\ WindowOf("B") # {}
  /\ \A t \in Entries : t.testName # "B"

\* C19: every entry of the result has a defined flakeRate with
\* 0 <= flakeRate <= 1, for every window and configuration.
C19_FlakeRateDefinedInUnitRange ==
  Analyzed =>
    \A t \in Entries :
      /\ t.totalRuns # 0
      /\ 0 <= t.failCount + t.flakyCount
      /\ t.failCount + t.flakyCount <= t.totalRuns

Figures(t) ==
  [testName |-> t.testName, totalRuns |-> t.totalRuns, flakeCount |-> t.failCount + t.flakyCount]

\* The outcomes of the window of the call, and the entries the analyzer gives
\* for that window once its skipped outcomes are taken away.
Window == InWindow("p1", now - Effective.windowDays)
EntriesWithoutSkipped == AnalysisEntries({ x \in Window : x.status # "skipped" }, Effective)

\* C21: the flakeRate of an entry is (failed + flaky) / (passed + failed +
\* flaky) over the in-window outcomes of its name, and the skipped outcomes
\* of the window change neither the totalRuns, nor the flakeRate, nor the
\* inclusion of any test.
C21_SkippedOutcomesAreNeutral ==
  Analyzed =>
    /\ \A t \in Entries :
         /\ t.totalRuns = Cardinality(RunsOf(t.testName))
         /\ t.failCount + t.flakyCount =
              Cardinality({ x \in RunsOf(t.testName) : x.status \in {"failed", "flaky"} })
    /\ { Figures(t) : t \in Entries } = { Figures(t) : t \in EntriesWithoutSkipped }

\* flakeRate of a >= flakeRate of b, both being numbers.
RateAtLeast(a, b) ==
  /\ a.totalRuns > 0
  /\ b.totalRuns > 0
  /\ (a.failCount + a.flakyCount) * b.totalRuns >= (b.failCount + b.flakyCount) * a.totalRuns

\* C22: the result is ordered by flakeRate, highest first (flakeRate[i] >=
\* flakeRate[j] for all positions i < j), and holds each included test name
\* exactly once.
C22_OrderedByRateEachNameOnce ==
  Analyzed =>
    /\ \A i, j \in 1..Len(analyzed.tests) :
         i < j => RateAtLeast(analyzed.tests[i], analyzed.tests[j])
    /\ \A i, j \in 1..Len(analyzed.tests) :
         analyzed.tests[i].testName = analyzed.tests[j].testName => i = j
    /\ \A n \in { x.testName : x \in Window } :
         Cardinality(RunsOf(n)) >= Effective.minRuns => \E t \in Entries : t.testName = n

\* The error messages an attempt carries: that of its error and those of
\* the entries of its errors.
MessagesOf(result) ==
  (IF "error" \in DOMAIN result /\ "message" \in DOMAIN result.error
   THEN {result.error.message} ELSE {})
    \cup { Opt(result, "errors", <<>>)[k].message :
             k \in { i \in 1..Len(Opt(result, "errors", <<>>)) :
                       "message" \in DOMAIN result.errors[i] } }
Carrying(a) == { k \in 1..Len(a) : MessagesOf(a[k]) # {} }

\* C23: the errorMessage of an outcome is a message of the first attempt, in
\* order, that carries one, and is null only when no attempt carries one.
C23_FirstErrorMessage ==
  Returned =>
    \A i \in 1..Len(Outcomes) :
      IF Carrying(AttemptsOf(i)) = {} THEN Outcomes[i].errorMessage = Null
      ELSE Outcomes[i].errorMessage \in
             MessagesOf(AttemptsOf(i)[CHOOSE k \in Carrying(AttemptsOf(i)) :
                                        \A m \in Carrying(AttemptsOf(i)) : k <= m])

\* The files a spec names itself: its file attribute and the file of its
\* location.
OwnFiles(c) ==
  (IF "file" \in DOMAIN c THEN {c.file} ELSE {})
    \cup (IF "location" \in DOMAIN c THEN {c.location.file} ELSE {})

\* For each spec with attempts, in the order of the report, the files the
\* rule allows: its own, or else that of the nearest suite around it that
\* has a file attribute, or else the empty string.
RECURSIVE FilesByAttribute(_, _)
FilesByAttribute(suites, nearest) ==
  IF Len(suites) = 0 THEN <<>>
  ELSE
    LET suite == Head(suites)
        near == IF "file" \in DOMAIN suite THEN suite.file ELSE nearest
        specs == SelectSeq(Opt(suite, "specs", <<>>),
                           LAMBDA c : Len(Opt(c, "results", <<>>)) > 0)
    IN [i \in 1..Len(specs) |-> IF OwnFiles(specs[i]) # {} THEN OwnFiles(specs[i]) ELSE {near}]
         \o FilesByAttribute(Opt(suite, "suites", <<>>), near)
         \o FilesByAttribute(Tail(suites), nearest)

\* C24: the file of an outcome is the spec's own file attribute, or else the
\* file attribute of the nearest ancestor suite that has one, or else the
\* empty string; the spec's own file attribute wins over a suite's.
C24_SpecFileBeforeSuiteFile ==
  Returned =>
    /\ Len(Outcomes) = Len(FilesByAttribute(rawReport.suites, ""))
    /\ \A i \in 1..Len(Outcomes) :
         Outcomes[i].testFile \in FilesByAttribute(rawReport.suites, "")[i]

\* The suites of a report with the specs of zero attempts taken out.
HasAttempts(c) == "results" \in DOMAIN c /\ Len(c.results) > 0
RECURSIVE WithoutZeroAttempts(_)
WithoutZeroAttempts(suites) ==
  [i \in 1..Len(suites) |->
     [specs |-> SelectSeq(Opt(suites[i], "specs", <<>>), HasAttempts),
      suites |-> WithoutZeroAttempts(Opt(suites[i], "suites", <<>>))] @@ suites[i]]

\* The specs of the raw report that have attempts.
Attempted ==
  IF Returned
  THEN SelectSeq(extractSpecs(rawReport.suites, "", <<>>), LAMBDA e : HasAttempts(e.spec))
  ELSE <<>>

\* C25: a spec with zero attempts (results missing or empty) produces no
\* outcome: the outcomes are those of the specs with attempts, one each,
\* totalTests and the status counts count only them, and the whole parsed
\* report (duration, start and end included) is that of the same raw report
\* without the specs of zero attempts.
C25_ZeroAttemptsNoOutcome ==
  Returned =>
    /\ Len(Outcomes) = Len(Attempted)
    /\ \A i \in 1..Len(Outcomes) :
         Outcomes[i].testName = buildTestName(Attempted[i].titlePath, Attempted[i].spec.title)
    /\ parsed.report.totalTests = Len(Attempted)
    /\ parsed.report.passed + parsed.report.failed + parsed.report.skipped
         + parsed.report.flaky = Len(Attempted)
    /\ parsed.report =
         parsePlaywrightReport([rawReport EXCEPT !.suites = WithoutZeroAttempts(@)]).report

\* A report with a spec without results, a spec with empty results and a
\* spec with an attempt has been parsed.
C25_Witness ==
  /\ Returned
  /\ Len(Outcomes) = 1
  /\ \E e \in Range(extractSpecs(rawReport.suites, "", <<>>)) : "results" \notin DOMAIN e.spec
  /\ \E e \in Range(extractSpecs(rawReport.suites, "", <<>>)) :
       "results" \in DOMAIN e.spec /\ e.spec.results = <<>>

\* The outcome rows stored for submission r.
RowsOf(r) == { x \in testResults : x.testRunId = r }

\* A reconciliation has been started for submission r.
Started(r) == runs[r].pc # "none"

\* In every state: a started reconciliation belongs to a submission that is
\* stored and answered 201, the query of its analysis sees every outcome row
\* of that submission younger than its cutoff, every stored and answered
\* submission has its reconciliation, and a submission answered 400 or 500
\* has none.
StartedAfterCommit ==
  \A r \in ReqIds :
    /\ Started(r) =>
         /\ response[r].status = 201
         /\ Stored(r)
         /\ ~(req.pc \in {"tx", "committed"} /\ req.id = r)
         /\ runs[r].pc = "analyze" =>
              { x \in RowsOf(r) : x.createdAt >= runs[r].cutoffDate }
                \subseteq InWindow(runs[r].projectId, runs[r].cutoffDate)
    /\ response[r].status = 201 => Started(r)
    /\ response[r].status \in {400, 500} => ~Started(r) /\ RowsOf(r) = {}
    /\ (\E tr \in testRuns : tr.id = r) =>
         Started(r) \/ (req.pc = "committed" /\ req.id = r)

\* In every step: a reconciliation starts only for the submission whose
\* transaction has committed, and none starts twice.
StartedOnce ==
  \A r \in ReqIds :
    runs'[r].pc = "analyze" /\ runs[r].pc # "analyze" =>
      /\ runs[r].pc = "none"
      /\ req.pc = "committed" /\ req.id = r

\* C26: the reconciliation of a report is started only after the transaction
\* storing its run and outcomes has committed, so that its analysis sees
\* them; one reconciliation is started per stored report, never a second,
\* and none for a report whose storing failed or that was rejected.
C26_StartedAfterCommitOnce == []StartedAfterCommit /\ [][StartedOnce]_vars

\* C26 witness: the analysis of a stored report is about to read its
\* outcomes, which are in its window, while an earlier submission failed to
\* store.
C26_Witness ==
  \E r, q \in ReqIds :
    /\ runs[r].pc = "analyze"
    /\ RowsOf(r) # {}
    /\ RowsOf(r) \subseteq InWindow(runs[r].projectId, runs[r].cutoffDate)
    /\ response[q].status = 500

\* After a completed run, every record the run read that was not 'ignored'
\* is there, 'active' if the analysis reports its name flaky and 'resolved'
\* if not.
StatusFollowsAnalysis ==
  \A r \in ReqIds :
    Done(r) =>
      \A x \in Range(runs[r].existing) :
        x.status # "ignored" =>
          \E y \in runs[r].final :
            /\ y.id = x.id
            /\ y.status = (IF x.testName \in FlakyNames(runs[r].analysis)
                           THEN "active" ELSE "resolved")

\* No step takes a record away.
NoRecordDeleted == \A x \in flakyTests : \E y \in flakyTests' : y.id = x.id

\* C29: after a completed run that no other run overlaps, a record that was
\* not 'ignored' before it is 'active' iff the run's analysis has its name
\* with isFlaky = true, and 'resolved' otherwise; no run deletes a record.
C29_StatusFollowsAnalysis == []StatusFollowsAnalysis /\ [][NoRecordDeleted]_vars

\* C29 witness: a completed run left a 'resolved' record 'resolved', another
\* has resolved an 'active' one.
C29_Witness ==
  /\ \E r \in ReqIds :
       /\ Done(r)
       /\ \E x \in Range(runs[r].existing) :
            /\ x.status = "resolved"
            /\ \E y \in runs[r].final : y.id = x.id /\ y.status = "resolved"
  /\ \E r \in ReqIds :
       /\ Done(r)
       /\ \E x \in Range(runs[r].existing) :
            /\ x.status = "active"
            /\ \E y \in runs[r].final : y.id = x.id /\ y.status = "resolved"

\* What C30 compares of a stored record.
StoredFields(x) ==
  [id |-> x.id, testName |-> x.testName, status |-> x.status,
   firstDetected |-> x.firstDetected, lastSeen |-> x.lastSeen, flakeCount |-> x.flakeCount,
   totalRuns |-> x.totalRuns, flakeRate |-> x.flakeRate]

\* C30: a run that repeats a completed run (same analysis entries, reading
\* the records the first one left) leaves the same rows with the same
\* status, firstDetected, lastSeen, flakeCount, totalRuns and flakeRate,
\* whether it issued writes or none.
C30_RepeatLeavesRecords ==
  \A r1, r2 \in ReqIds :
    Repeats(r1, r2) =>
      /\ Cardinality(runs[r2].final) = Cardinality(runs[r1].final)
      /\ { StoredFields(x) : x \in runs[r2].final } = { StoredFields(x) : x \in runs[r1].final }

\* C30 witness: a repeating run that issued an update on a later day than
\* the outcomes it refreshed from.
C30_Witness ==
  \E r1, r2 \in ReqIds :
    /\ Repeats(r1, r2)
    /\ \E op \in Issued(r2) :
         /\ op.kind = "update"
         /\ \E y \in runs[r2].final : y.id = op.id /\ y.lastSeen < now

\* A repeating run that issued no write and left a record.
RepeatWithoutWrites ==
  \E r1, r2 \in ReqIds : Repeats(r1, r2) /\ runs[r2].i = 0 /\ runs[r2].final # {}

\* The table after the writes plan[k], plan[k + 1], ... of a call for
\* projectId have run on table, one after the other.
RECURSIVE AfterWrites(_, _, _, _)
AfterWrites(table, plan, k, projectId) ==
  IF k > Len(plan) THEN table
  ELSE
    LET op == plan[k]
        next == CASE op.kind = "update" ->
                       { IF x.id = op.id THEN UpdateSet(x, op.test) ELSE x : x \in table }
                  [] op.kind = "insert" ->
                       table \cup { InsertValues(projectId, op.test) }
                  [] op.kind = "resolve" ->
                       { IF x.id = op.id THEN ResolveSet(x) ELSE x : x \in table }
    IN AfterWrites(next, plan, k + 1, projectId)

\* What C27 compares of a record.
DerivedFields(x) ==
  [testName |-> x.testName, status |-> x.status, flakeCount |-> x.flakeCount,
   totalRuns |-> x.totalRuns, flakeRate |-> x.flakeRate, lastSeen |-> x.lastSeen]

\* Run f aborted after some but not all of its writes, and run r is the next
\* run: it completed with the same analysis entries, having read the records
\* f left behind.
RetriedBy(f, r) ==
  /\ f < r
  /\ runs[f].pc = "failed"
  /\ runs[f].i > 0
  /\ runs[f].i < Len(runs[f].plan)
  /\ Done(r)
  /\ runs[r].projectId = runs[f].projectId
  /\ Range(runs[r].analysis) = Range(runs[f].analysis)
  /\ Range(runs[r].existing) = runs[f].final

\* C27: when a run aborted after some but not all of its writes, the next
\* completed run over the same in-window outcomes leaves every record with
\* the status, flakeCount, totalRuns, flakeRate and lastSeen that the aborted
\* run would have left had it run all its writes from the state it read, and
\* at most one record per test name.
C27_RetryCompletesAbortedRun ==
  \A f, r \in ReqIds :
    RetriedBy(f, r) =>
      /\ { DerivedFields(x) : x \in runs[r].final } =
           { DerivedFields(x) :
               x \in AfterWrites(Range(runs[f].existing), runs[f].plan, 1, runs[f].projectId) }
      /\ \A x, y \in runs[r].final : x.testName = y.testName => x = y

\* C27 witness: a run that had two or more writes to do aborted after the
\* first, and the next run completed what it left.
C27_Witness ==
  \E f, r \in ReqIds :
    /\ RetriedBy(f, r)
    /\ { DerivedFields(x) : x \in runs[f].final } # { DerivedFields(x) : x \in runs[r].final }

\* The outcome rows of project p not older than cutoffDate, and the flaky
\* records of project p.
OutcomesOf(p, cutoffDate) ==
  { x \in testResults :
      /\ x.createdAt >= cutoffDate
      /\ \A tr \in testRuns : tr.id = x.testRunId => tr.projectId = p }
RecordsOf(p) == { x \in flakyTests : x.projectId = p }

\* In every step: an analysis that answers has been computed from the
\* outcomes of its own project alone, a findMany that answers has read the
\* records of its own project alone, and the records of a project change
\* only by a write of a run of that project.
ProjectIsolatedStep ==
  /\ \A r \in ReqIds :
       /\ runs[r].pc = "analyze" /\ runs'[r].pc = "find" =>
            Range(runs'[r].analysis) =
              AnalysisEntries(OutcomesOf(runs[r].projectId, runs[r].cutoffDate), DEFAULT_CONFIG)
       /\ runs[r].pc = "find" /\ runs'[r].pc \in {"write", "done"} =>
            /\ Range(runs'[r].existing) = RecordsOf(runs[r].projectId)
            /\ runs'[r].plan = Plan(runs[r].analysis, runs'[r].existing)
  /\ \A p \in BothProjects :
       RecordsOf(p)' # RecordsOf(p) =>
         \E r \in ReqIds :
           /\ runs[r].projectId = p
           /\ runs[r].pc = "write"
           /\ runs'[r].i = runs[r].i + 1

\* C28: a run for project P reads only P's outcomes and P's flaky records and
\* writes only P's flaky records, in every interleaving with the reports and
\* runs of another project Q and with tests of the same name in both: Q's
\* records change only by Q's runs, and P's analysis, the records P reads and
\* P's writes are those computed from P's rows alone.
C28_ProjectsIsolated == [][ProjectIsolatedStep]_vars

\* C28 witness: a run of one project is about to write a record of a test
\* while the other project, whose later run has completed meanwhile, has a
\* record of a test of the same name.
C28_Witness ==
  \E r, q \in ReqIds :
    /\ r < q
    /\ runs[r].projectId # runs[q].projectId
    /\ runs[r].pc = "write"
    /\ Done(q)
    /\ \E y \in RecordsOf(runs[q].projectId) : y.testName = runs[r].plan[1].testName

====
